---- MODULE Spec2Model ----
(***************************************************************************)
(* Model of tick-tack-toe.py: the MVC console game.  The program is one    *)
(* synchronous call stack that blocks on input(); a step of the model is   *)
(* "the program consumes one line of console input at the place where it   *)
(* is waiting and runs until it waits again, exits, or dies".              *)
(*                                                                         *)
(* Python lists are modelled as sequences (1-based); a Python index i of a *)
(* list of length n denotes element i+1 for 0 <= i < n, element n+i+1 for  *)
(* -n <= i < 0, and raises IndexError otherwise.                           *)
(* A console line is a sequence of one-character strings.                  *)
(***************************************************************************)
EXTENDS Integers, Sequences, FiniteSets, TLC

VARIABLES
    size, field, active_player, flag_end, flag_draw,   \* the model object
    pc,      \* where the program is: waiting at an input(), exited, or dead
    args,    \* the arguments of the last call of setCell since the last
             \* startPlay; <<>> before it
    observers,  \* the model object's list of observers
    log,        \* the callbacks made by the last notifyObserver, in order,
                \* each with the data its observer pulled with getData
    callbacks,  \* updateCurrentSituation calls begun and not yet returned
    calls,      \* number of calls of setCell since the last startPlay
    held,       \* the grid an observer holds from getData, as references:
                \* its r-th element is the model's row list number held[r]
    returned    \* what the last getData call returned, while no setCell or
                \* startPlay has followed it; <<>> otherwise

vars == <<size, field, active_player, flag_end, flag_draw, pc, args,
          observers, log, callbacks, calls, held, returned>>

(***************************************************************************)
(* Bounds of the exploration.                                              *)
(***************************************************************************)
\* Boards larger than the standard one are explored up to this many marks.
MaxBigMoves == 3

\* Marks on the board up to which an observer writing into a grid it was
\* handed is followed.
MaxObservedMarks == 2

(***************************************************************************)
(* Program constants.                                                      *)
(***************************************************************************)
\* The default size set by the constructor (line 63), the size returned for
\* an empty answer to the size prompt (line 265), the least size (line 267).
StandardSize == 3
DefaultSize == 3
LeastSize == 3
player_0 == "Zero Player"
player_X == "Cross Player"
Empty == " "
MarkX == "X"
Mark0 == "0"

(***************************************************************************)
(* Python list indexing.                                                   *)
(***************************************************************************)
IndexOk(list, i) == (-Len(list) <= i) /\ (i < Len(list))

PyGet(list, i) == IF i >= 0 THEN list[i + 1] ELSE list[Len(list) + i + 1]

PySet(list, i, v) ==
    IF i >= 0 THEN [list EXCEPT ![i + 1] = v]
              ELSE [list EXCEPT ![Len(list) + i + 1] = v]

(***************************************************************************)
(* Console lines: str.strip, str.replace("  ", " "), str.count(" "),       *)
(* str.split(" ") and int(), as the view uses them.                        *)
(***************************************************************************)
Digits == <<"0", "1", "2", "3", "4", "5", "6", "7", "8", "9">>

IsDigit(c) == \E d \in 1..10 : Digits[d] = c

DigitVal(c) == (CHOOSE d \in 1..10 : Digits[d] = c) - 1

RECURSIVE LStrip(_)
LStrip(s) == IF s # <<>> /\ Head(s) = " " THEN LStrip(Tail(s)) ELSE s

RECURSIVE RStrip(_)
RStrip(s) ==
    IF s # <<>> /\ s[Len(s)] = " " THEN RStrip(SubSeq(s, 1, Len(s) - 1)) ELSE s

Strip(s) == RStrip(LStrip(s))

\* One pass of line.replace("  ", " "): non-overlapping matches, left to right.
RECURSIVE ReplaceDouble(_)
ReplaceDouble(s) ==
    IF Len(s) < 2 THEN s
    ELSE IF s[1] = " " /\ s[2] = " "
         THEN <<" ">> \o ReplaceDouble(SubSeq(s, 3, Len(s)))
         ELSE <<s[1]>> \o ReplaceDouble(Tail(s))

\* The while loop of lines 314-318.
RECURSIVE Collapse(_)
Collapse(s) == IF ReplaceDouble(s) = s THEN s ELSE Collapse(ReplaceDouble(s))

CountSpaces(s) == Cardinality({i \in 1..Len(s) : s[i] = " "})

\* line.split(" "): the list of the pieces between single spaces.
RECURSIVE SplitFrom(_, _)
SplitFrom(s, cur) ==
    IF s = <<>> THEN <<cur>>
    ELSE IF Head(s) = " " THEN <<cur>> \o SplitFrom(Tail(s), <<>>)
         ELSE SplitFrom(Tail(s), Append(cur, Head(s)))

Split(s) == SplitFrom(s, <<>>)

\* int(tok) succeeds on an optional sign followed by one or more digits.
Unsigned(tok) ==
    IF tok # <<>> /\ Head(tok) \in {"-", "+"} THEN Tail(tok) ELSE tok

IsInt(tok) ==
    /\ Unsigned(tok) # <<>>
    /\ \A i \in 1..Len(Unsigned(tok)) : IsDigit(Unsigned(tok)[i])

RECURSIVE NatVal(_)
NatVal(ds) ==
    IF ds = <<>> THEN 0
    ELSE 10 * NatVal(SubSeq(ds, 1, Len(ds) - 1)) + DigitVal(ds[Len(ds)])

IntVal(tok) ==
    IF tok # <<>> /\ Head(tok) = "-" THEN 0 - NatVal(Unsigned(tok))
                                     ELSE NatVal(Unsigned(tok))

\* Lines 307-328 of updateCurrentSituation: what the view makes of a line
\* before it looks at the board.  "empty" and "many" print a warning;
\* "valueerror" is the ValueError of the unpacking or of int(), caught at 337.
ParseLine(line) ==
    IF line = <<>> THEN [kind |-> "empty", x |-> 0, y |-> 0]
    ELSE LET l == Collapse(Strip(line))
             toks == Split(l)
         IN  IF CountSpaces(l) > 1 THEN [kind |-> "many", x |-> 0, y |-> 0]
             ELSE IF Len(toks) # 2 THEN [kind |-> "valueerror", x |-> 0, y |-> 0]
             ELSE IF ~IsInt(toks[1]) \/ ~IsInt(toks[2])
                  THEN [kind |-> "valueerror", x |-> 0, y |-> 0]
             ELSE [kind |-> "ints", x |-> IntVal(toks[1]), y |-> IntVal(toks[2])]

(***************************************************************************)
(* TTTModelScale: the engine.                                              *)
(***************************************************************************)
\* Faulty variant of startPlay: every row has the standard length.
startPlay_StandardRows(n) ==
    [line \in 1..n |-> [column \in 1..StandardSize |-> Empty]]

\* startPlay, lines 102-103: size rows, each a fresh list of size spaces.
startPlay(n) == [line \in 1..n |-> [column \in 1..n |-> Empty]]

\* copy.copy(list), line 112: a new list whose elements are the elements of
\* the original, the same objects.  As references: element k of the copy is
\* element k of the original.
copy_copy(list) == [k \in 1..Len(list) |-> k]

\* getData: the tuple handed to the observers.
getData == <<size, flag_end, flag_draw, active_player, field>>

\* Faulty variant of isFullField: only the first row is looked at.
isFullField_FirstRow(f) ==
    ~ \E column \in 1..Len(f[1]) : f[1][column] = Empty

isFullField(f) ==
    ~ \E line \in 1..Len(f) : \E column \in 1..Len(f[line]) :
          f[line][column] = Empty

\* Number of cells of the sequence of cells cs that hold mark m.
Count(cs, m) == Cardinality({i \in 1..Len(cs) : cs[i] = m})

\* Lines 134-142: a row whose X count or 0 count equals size.
RowWin(f, n) ==
    \E line \in 1..Len(f) : Count(f[line], MarkX) = n \/ Count(f[line], Mark0) = n

\* Faulty variant of ColumnWin: only the crosses of a column are counted.
ColumnWin_CrossOnly(f, n) ==
    \E column \in 1..n :
        Count([line \in 1..Len(f) |-> f[line][column]], MarkX) = n

\* Lines 144-152: the same count down each column.
ColumnWin(f, n) ==
    \E column \in 1..n :
        LET cs == [line \in 1..Len(f) |-> f[line][column]]
        IN  Count(cs, MarkX) = n \/ Count(cs, Mark0) = n

\* Lines 154-168: one pass over all cells; the counters were reset to 0 by
\* line 152, and the pass counts into them the cells with line = column,
\* and into the reverse counters those with line = size - 1 - column.
DiagCount(f, n, m) == Count([line \in 1..n |-> f[line][line]], m)

RevDiagCount(f, n, m) == Count([line \in 1..n |-> f[line][n + 1 - line]], m)

\* Faulty variant of DiagonalWin: the reverse diagonal is not counted.
DiagonalWin_MainOnly(f, n) ==
    n \in {DiagCount(f, n, MarkX), DiagCount(f, n, Mark0)}

DiagonalWin(f, n) ==
    n \in {DiagCount(f, n, MarkX), DiagCount(f, n, Mark0),
           RevDiagCount(f, n, MarkX), RevDiagCount(f, n, Mark0)}

checkWinner(f, n) == RowWin(f, n) \/ ColumnWin(f, n) \/ DiagonalWin(f, n)

\* notifyObserver, lines 87-88, run when the change is complete: each
\* observer of the list is called once, in list order, and pulls the data.
RECURSIVE Callbacks(_, _)
Callbacks(list, data) ==
    IF list = <<>> THEN <<>>
    ELSE <<[observer |-> Head(list), data |-> data]>>
             \o Callbacks(Tail(list), data)

\* Faulty variant of notifyObserver: the observers are called before the
\* change is applied and pull the data of the state before it.
notifyObserver_BeforeTheChange ==
    \E data \in {getData} : log' = Callbacks(observers, data)

notifyObserver == \E data \in {getData'} : log' = Callbacks(observers, data)

\* Faulty variant of MarkOf: a cross is written for either player.
MarkOf_AlwaysCross(player) == MarkX

\* The mark setCell writes for the active player, lines 192-195.
MarkOf(player) == IF player = player_X THEN MarkX ELSE Mark0

\* Faulty variant of Other: the turn always passes to Zero Player.
Other_AlwaysZero(player) == player_0

Other(player) == IF player = player_X THEN player_0 ELSE player_X

\* setCell(x, y) lines 192-195: field[x][y] = mark, with Python indexing.
WriteCell(f, x, y, m) == PySet(f, x, PySet(PyGet(f, x), y, m))

\* Faulty variant of nextStep: the active player changes after a win too.
nextStep_AlwaysToggle ==
    /\ flag_end' = checkWinner(field', size)
    /\ flag_draw' = IF ~flag_end' THEN isFullField(field') ELSE flag_draw
    /\ active_player' = IF ~flag_draw' THEN Other(active_player)
                                       ELSE active_player

\* Faulty variant of nextStep: the draw is checked after a win too.
nextStep_DrawAfterWin ==
    /\ flag_end' = checkWinner(field', size)
    /\ flag_draw' = isFullField(field')
    /\ active_player' = IF ~flag_end' /\ ~flag_draw' THEN Other(active_player)
                                                      ELSE active_player

\* nextStep, lines 176-185, on the board as setCell left it (field'): the
\* flags and the active player.  Line 187 notifies the observers; what the
\* view does then is AfterUpdate.
nextStep ==
    /\ flag_end' = checkWinner(field', size)
    /\ flag_draw' = IF ~flag_end' THEN isFullField(field') ELSE flag_draw
    /\ active_player' = IF ~flag_end' /\ ~flag_draw' THEN Other(active_player)
                                                      ELSE active_player

\* setCell(x, y), lines 192-197, with the notification that ends nextStep
\* (line 187).
setCell(x, y) ==
    /\ field' = WriteCell(field, x, y, MarkOf(active_player))
    /\ nextStep
    /\ notifyObserver
    /\ calls' = calls + 1
    /\ returned' = <<>>

\* The size setter (lines 94-96) followed by startPlay (lines 98-105), as
\* both controller methods call them: the field is replaced by new rows and
\* the observers are notified.  Nothing else of the model is assigned.  A
\* grid handed out before holds the old rows, no longer the model's.
Initialize(n) ==
    /\ size' = n
    /\ field' = startPlay(n)
    /\ UNCHANGED <<active_player, flag_end, flag_draw, observers>>
    /\ notifyObserver
    /\ held' = <<>>
    /\ returned' = <<>>
    /\ calls' = 0
    /\ args' = <<>>

(***************************************************************************)
(* TTTView.                                                                *)
(***************************************************************************)
\* Faulty variant of Terminal: the view goes on prompting after a win.
Terminal_DrawOnly(end, draw) == draw

\* Lines 295-300: the view prompts only when neither flag is set.
Terminal(end, draw) == end \/ draw

\* Where updateCurrentSituation leaves the program: at the prompt of line
\* 306, or returned (the call stack unwinds and the process exits).
AfterUpdate(end, draw) == IF Terminal(end, draw) THEN "done" ELSE "prompt"

\* Faulty variant of OpenCallbacks: the callback returns before the next
\* move is made.
OpenCallbacks_ReturnsFirst(d, end, draw) == 0

\* The view's callback returns only when the game is over (lines 295-299);
\* then every pending call returns in turn.  Otherwise it stays at the
\* prompt of line 306 and calls setCell from there (line 340): d callbacks
\* were open before this one began.
OpenCallbacks(d, end, draw) == IF Terminal(end, draw) THEN 0 ELSE d + 1

\* Line 330.
TooBig(x, y, n) == (x > n) \/ (y > n)

\* Line 333 raises IndexError when x-1 or y-1 is no index of the list.
Indexable(f, x, y) == IndexOk(f, x - 1) /\ IndexOk(PyGet(f, x - 1), y - 1)

\* Faulty variant of Occupied: the comparison of line 333 is inverted, an
\* empty cell is reported as taken.
Occupied_Inverted(f, x, y) == PyGet(PyGet(f, x - 1), y - 1) = Empty

\* Faulty variant of Occupied: a cell reached through a negative index is
\* taken to be empty.
Occupied_NonNegativeOnly(f, x, y) ==
    IF (x - 1 < 0) \/ (y - 1 < 0) THEN FALSE
    ELSE PyGet(PyGet(f, x - 1), y - 1) # Empty

\* Line 333: the cell the view looks at is not a space.
Occupied(f, x, y) == PyGet(PyGet(f, x - 1), y - 1) # Empty

(***************************************************************************)
(* The console lines explored.                                             *)
(***************************************************************************)
RECURSIVE NatStr(_)
NatStr(i) == IF i < 10 THEN <<Digits[i + 1]>>
                       ELSE NatStr(i \div 10) \o <<Digits[(i % 10) + 1]>>

IntStr(i) == IF i < 0 THEN <<"-">> \o NatStr(0 - i) ELSE NatStr(i)

\* The integers typed as coordinates on a board of side n: the values around
\* the ends of the range of Python indices (-n .. n-1 for x-1) and of the
\* range 1 .. n.
Typed(n) == {0 - n, 1 - n} \cup (0..(n + 1))

CoordLines(n) ==
    {IntStr(x) \o <<" ">> \o IntStr(y) : x \in Typed(n), y \in Typed(n)}

OddLines ==
    { <<>>,
      <<" ">>,
      <<"1">>,
      <<"a", " ", "1">>,
      <<"1", " ", "a">>,
      <<"-", " ", "1">>,
      <<"1", " ", "2", " ", "3">>,
      <<" ", "2", " ", " ", " ", "2", " ">> }

\* The side lengths a game is explored with.
Sizes == {3, 4}

\* For each side length, each explored line with what the view parses from it.
TurnInputs ==
    [n \in Sizes |->
        {[line |-> l, parsed |-> ParseLine(l)] : l \in CoordLines(n) \cup OddLines}]

StartLines == { <<>>, <<"y">>, <<"n">>, <<"x">> }

SizeLines == { <<>>, <<"a">>, <<"-", "1">>, <<"0">>, <<"2">> } \cup {IntStr(i) : i \in Sizes}

\* Number of marks on the board.
Marks(f) ==
    Cardinality({c \in (1..Len(f)) \X (1..Len(f)) : f[c[1]][c[2]] # Empty})

\* The exploration follows a game on a board larger than the standard one
\* for MaxBigMoves marks.
Explored == (pc = "prompt") /\ ((size = StandardSize) \/ (Marks(field) < MaxBigMoves))

(***************************************************************************)
(* The program.                                                            *)
(***************************************************************************)
Init ==
    /\ size = StandardSize
    /\ active_player = player_X
    /\ flag_end = FALSE
    /\ flag_draw = FALSE
    /\ field = <<>>
    /\ pc = "start"
    /\ args = <<>>
    /\ observers = <<"view">>
    /\ log = <<>>
    /\ callbacks = 0
    /\ calls = 0
    /\ held = <<>>
    /\ returned = <<>>

\* startPlay with the size n in force: the board is built and the observers
\* are notified, so the view prints it and prompts or announces the end.
StartPlay(n) ==
    /\ Initialize(n)
    /\ pc' = AfterUpdate(flag_end, flag_draw)
    /\ callbacks' = OpenCallbacks(callbacks, flag_end, flag_draw)

\* printStartMessage, lines 238-254, on an answer that is neither y nor n.
StartRetry(line) ==
    /\ pc = "start"
    /\ line # <<>>
    /\ line \notin { <<"y">>, <<"n">> }
    /\ UNCHANGED vars

\* printStartMessage on y or an empty answer: startWithStandartSize.
StartStandard(line) ==
    /\ pc = "start"
    /\ line \in { <<>>, <<"y">> }
    /\ StartPlay(size)

\* printStartMessage on n: startWithNoStandartSize asks for the size.
StartCustom(line) ==
    /\ pc = "start"
    /\ line = <<"n">>
    /\ pc' = "size"
    /\ UNCHANGED <<size, field, active_player, flag_end, flag_draw, args>>
    /\ UNCHANGED <<observers, log, callbacks, calls, held, returned>>

\* queryChangeSize, lines 260-272, on a line that is asked again: no integer
\* (ValueError) or an integer below 3.
SizeRetry(line) ==
    /\ pc = "size"
    /\ line # <<>>
    /\ IF IsInt(line) THEN IntVal(line) < LeastSize ELSE TRUE
    /\ UNCHANGED vars

\* Faulty variant of SizeChosen: line 267 is left out, every integer is
\* returned.
SizeChosen_AnyInteger(line) ==
    /\ pc = "size"
    /\ \/ line = <<>> /\ StartPlay(DefaultSize)
       \/ /\ line # <<>>
          /\ IsInt(line)
          /\ StartPlay(IntVal(line))

\* queryChangeSize returns; startWithNoStandartSize sets the size and starts.
SizeChosen(line) ==
    /\ pc = "size"
    /\ \/ line = <<>> /\ StartPlay(DefaultSize)
       \/ /\ line # <<>>
          /\ IF IsInt(line) THEN IntVal(line) >= LeastSize ELSE FALSE
          /\ StartPlay(IntVal(line))

\* Lines 307-334 refuse the line: a warning is printed, or the ValueError of
\* the unpacking or of int() is caught at line 337, and the loop asks again.
Refused(in) ==
    LET p == in.parsed
    IN  IF p.kind # "ints" THEN TRUE
        ELSE IF TooBig(p.x, p.y, size) THEN TRUE
        ELSE Indexable(field, p.x, p.y) /\ Occupied(field, p.x, p.y)

\* Line 333 raises IndexError, which the except clause of line 337 does not
\* catch.
Raises(in) ==
    LET p == in.parsed
    IN  /\ p.kind = "ints"
        /\ ~TooBig(p.x, p.y, size)
        /\ ~Indexable(field, p.x, p.y)

\* Lines 330-336 reach the break: the line is taken as a move.
Accepted(in) ==
    LET p == in.parsed
    IN  /\ p.kind = "ints"
        /\ ~TooBig(p.x, p.y, size)
        /\ Indexable(field, p.x, p.y)
        /\ ~Occupied(field, p.x, p.y)

\* updateCurrentSituation, lines 302-338, on a line it refuses: nothing but
\* the console changes.
Reprompt ==
    /\ pc = "prompt"
    /\ ~ \A in \in TurnInputs[size] : ~Refused(in)
    /\ UNCHANGED vars

\* The IndexError of line 333 propagates through every frame: the process
\* dies with a traceback (the model keeps the state it died in).
Fault ==
    /\ pc = "prompt"
    /\ ~ \A in \in TurnInputs[size] : ~Raises(in)
    /\ pc' = "crashed"
    /\ UNCHANGED <<size, field, active_player, flag_end, flag_draw, args>>
    /\ UNCHANGED <<observers, log, callbacks, calls, held, returned>>

\* The line passes lines 330-336; line 340 calls controller.setCell(x-1, y-1),
\* which is model.setCell: the mark is written, nextStep sets the flags and
\* the active player and notifies the view.
Place(in) ==
    /\ pc = "prompt"
    /\ Accepted(in)
    /\ args' = <<in.parsed.x - 1, in.parsed.y - 1>>
    /\ UNCHANGED <<size, observers, held>>
    /\ setCell(args'[1], args'[2])
    /\ pc' = AfterUpdate(flag_end', flag_draw')
    /\ callbacks' = OpenCallbacks(callbacks, flag_end', flag_draw')

\* A move, within the bound of the exploration.
Move == Explored /\ \E in \in TurnInputs[size] : Place(in)

Next ==
    \/ \E line \in StartLines : StartRetry(line)
    \/ \E line \in StartLines : StartStandard(line)
    \/ \E line \in StartLines : StartCustom(line)
    \/ \E line \in SizeLines : SizeRetry(line)
    \/ \E line \in SizeLines : SizeChosen(line)
    \/ Reprompt
    \/ Fault
    \/ Move

Spec == Init /\ [][Next]_vars

\* The game on the standard board, the one followed to its end, with a
\* user who, asked for a move, does not answer with refused lines for ever:
\* a line the view accepts comes eventually.
NextStandard ==
    \/ \E line \in StartLines : StartRetry(line)
    \/ \E line \in StartLines : StartStandard(line)
    \/ Reprompt
    \/ Fault
    \/ Move

SpecFair == Init /\ [][NextStandard]_vars /\ WF_vars(Move)

(***************************************************************************)
(* The engine behind its interface.  TTTModelInterface and                 *)
(* ObserverInterface let any client call startPlay, setCell and getData    *)
(* and any observer register itself: here the model object is driven by    *)
(* such a client instead of the console view.                              *)
(***************************************************************************)

\* A model object as its constructor leaves it (lines 59-77), with no view.
InitEngine ==
    /\ size = StandardSize
    /\ active_player = player_X
    /\ flag_end = FALSE
    /\ flag_draw = FALSE
    /\ field = <<>>
    /\ observers = <<>>
    /\ log = <<>>
    /\ pc = "client"
    /\ args = <<>>
    /\ callbacks = 0
    /\ calls = 0
    /\ held = <<>>
    /\ returned = <<>>

\* A client starts a game of size n; its observers return at once.
ClientStart(n) ==
    /\ Initialize(n)
    /\ UNCHANGED <<pc, callbacks>>

\* A client keeping the contract of setCell: a game is on, the indices are
\* those of a cell of the board and the cell is empty.
ClientSetCell(x, y) ==
    /\ field # <<>>
    /\ ~Terminal(flag_end, flag_draw)
    /\ x \in 0..(size - 1)
    /\ y \in 0..(size - 1)
    /\ PyGet(PyGet(field, x), y) = Empty
    /\ args' = <<x, y>>
    /\ UNCHANGED <<size, observers, held, pc, callbacks>>
    /\ setCell(x, y)

\* getData, lines 107-112: the caller receives the values of the model and,
\* as the grid, the copy.copy of the field.
ClientGetData ==
    /\ returned' = getData
    /\ held' = copy_copy(field)
    /\ UNCHANGED <<size, field, active_player, flag_end, flag_draw, observers,
                   log, pc, args, callbacks, calls>>

\* The holder of a returned grid assigns grid[r-1][c-1] = v, another value
\* than the cell has: the assignment goes to the list that grid[r-1] is.
ObserverWrite(r, c, v) ==
    /\ r \in 1..Len(held)
    /\ c \in 1..Len(field[held[r]])
    /\ field[held[r]][c] # v
    /\ field' = [field EXCEPT ![held[r]][c] = v]
    /\ UNCHANGED <<size, active_player, flag_end, flag_draw, observers, log,
                   pc, args, callbacks, calls, held, returned>>

\* The exploration with an observer that writes follows boards of fewer
\* than MaxObservedMarks marks, and one assignment into a grid just returned.
Observed == Marks(field) < MaxObservedMarks

FirstWrite == (returned # <<>>) /\ (returned[5] = field)

ObservedMove ==
    Observed /\ \E x \in 0..(size - 1) : \E y \in 0..(size - 1) : ClientSetCell(x, y)

Overwrite ==
    /\ Observed
    /\ FirstWrite
    /\ \E r \in 1..size : \E c \in 1..size :
          \E v \in {MarkX, Mark0} : ObserverWrite(r, c, v)

NextObserver ==
    \/ ClientStart(StandardSize)
    \/ ObservedMove
    \/ ClientGetData
    \/ Overwrite

SpecObserver == InitEngine /\ [][NextObserver]_vars

\* The observer objects of the engine-level exploration.  The
\* updateCurrentSituation of each pulls the data and returns.
Observers == {"a", "b"}

Registered == {observers[i] : i \in 1..Len(observers)}

\* registerObserver, lines 79-82.
registerObserver(o) ==
    /\ observers' = Append(observers, o)
    /\ UNCHANGED <<size, field, active_player, flag_end, flag_draw, log, pc,
                   args, callbacks, calls, held, returned>>

\* An observer registers itself once, before the first game, as TTTView
\* does in its constructor (line 224).
Register ==
    /\ field = <<>>
    /\ \E o \in Observers \ Registered : registerObserver(o)

\* The engine-level exploration starts games of either size and follows
\* those on the standard board, to their end.
ClientMove ==
    /\ size = StandardSize
    /\ \E x \in 0..(size - 1) : \E y \in 0..(size - 1) : ClientSetCell(x, y)

NextEngine ==
    \/ Register
    \/ \E n \in Sizes : ClientStart(n)
    \/ ClientMove

SpecEngine == InitEngine /\ [][NextEngine]_vars

(***************************************************************************)
(* Vocabulary of the properties.                                           *)
(***************************************************************************)
Started == field # <<>>

Rows == 1..size

\* Some row, some column, the main diagonal or the anti-diagonal of the
\* board holds the mark m in each of its cells.
CompleteLine(m) ==
    \/ \E r \in Rows : \A c \in Rows : field[r][c] = m
    \/ \E c \in Rows : \A r \in Rows : field[r][c] = m
    \/ \A i \in Rows : field[i][i] = m
    \/ \A i \in Rows : field[i][size + 1 - i] = m

SomeCompleteLine == CompleteLine(MarkX) \/ CompleteLine(Mark0)

NoEmptyCell == \A r \in Rows : \A c \in Rows : field[r][c] # Empty

CellsWith(m) == {c \in Rows \X Rows : field[c[1]][c[2]] = m}

\* The player whose mark was placed last: X moves first, so X placed the
\* last mark exactly when there are more X than 0.
LastMover ==
    IF Cardinality(CellsWith(MarkX)) > Cardinality(CellsWith(Mark0))
    THEN player_X ELSE player_0

\* A step that places a mark.
Placement == Started /\ field' # field

C2_WinnerIsActivePlayer ==
    (Started /\ flag_end) =>
        /\ CompleteLine(MarkOf(active_player))
        /\ ~CompleteLine(MarkOf(Other(active_player)))
        /\ active_player = LastMover

\* A game won by Zero Player.
C2_Witness ==
    Started /\ flag_end /\ pc = "done" /\ active_player = player_0
            /\ CompleteLine(Mark0)

\* C3: a placement that leaves the game neither won nor drawn passes the
\* turn to the other player; a placement that ends the game leaves the
\* active player as it was.
C3_TurnAlternation ==
    [][Placement =>
         IF ~flag_end' /\ ~flag_draw'
         THEN active_player' # active_player /\ active_player' = Other(active_player)
         ELSE active_player' = active_player]_vars

\* The turn has passed to Zero Player and back.
C3_Witness ==
    Started /\ pc = "prompt" /\ Marks(field) = 2 /\ active_player = player_X

\* C4: the step that starts the game (startPlay on the freshly constructed
\* model) leaves a snapshot with a size of at least 3, a board of size rows
\* of size cells, all empty, both flags false and Cross Player active.
C4_FreshBoard ==
    [][(~Started /\ field' # field) =>
         /\ getData'[1] >= 3
         /\ getData'[2] = FALSE
         /\ getData'[3] = FALSE
         /\ getData'[4] = player_X
         /\ Len(getData'[5]) = getData'[1]
         /\ \A r \in 1..Len(getData'[5]) :
               /\ Len(getData'[5][r]) = getData'[1]
               /\ \A c \in 1..Len(getData'[5][r]) : getData'[5][r][c] = Empty]_vars

\* A game started on a board of side 4.
C4_Witness == Started /\ size = 4 /\ Marks(field) = 0 /\ pc = "prompt"

\* C5: once the game has started, the draw flag is set exactly when no cell
\* is empty and no line is complete.
C5_DrawnIffFullWithoutLine ==
    Started => (flag_draw <=> (NoEmptyCell /\ ~SomeCompleteLine))

\* The last empty cell was filled and completed a line: won, not drawn.
C5_Witness == Started /\ NoEmptyCell /\ flag_end /\ ~flag_draw

\* C6: the end flag and the draw flag are never both set, and a flag that
\* is set stays set.
C6_FlagsExclusiveAndStable ==
    /\ [](~(flag_end /\ flag_draw))
    /\ [][(flag_end => flag_end') /\ (flag_draw => flag_draw')]_vars

\* A drawn game.
C6_Witness == Started /\ flag_draw /\ ~flag_end /\ pc = "done"

\* C7: once the game is won or drawn the view does not prompt again, and
\* the board, the flags and the active player do not change any more.
C7_TerminalIsAbsorbing ==
    /\ []((flag_end \/ flag_draw) => pc = "done")
    /\ [][(flag_end \/ flag_draw) =>
            UNCHANGED <<field, flag_end, flag_draw, active_player>>]_vars

\* A game that was won while cells were still empty.
C7_Witness == Started /\ flag_end /\ ~NoEmptyCell /\ pc = "done"

\* C8: whatever is typed, a step changes at most one cell, from empty to a
\* mark; a cell that holds a mark keeps it.
C8_CellsWrittenOnce ==
    [][Started =>
         /\ Len(field') = Len(field)
         /\ \A r \in Rows : Len(field'[r]) = Len(field[r])
         /\ \A r \in Rows : \A c \in Rows :
               field[r][c] # Empty => field'[r][c] = field[r][c]
         /\ Cardinality({c \in Rows \X Rows :
                           field'[c[1]][c[2]] # field[c[1]][c[2]]}) <= 1]_vars

\* Zero Player's mark was written through the index -1 (the line "0 1").
C8_Witness ==
    /\ Started /\ pc = "prompt"
    /\ args = <<0 - 1, 0>>
    /\ field[size][1] = Mark0
    /\ Marks(field) >= 2

\* A line that is a move by the rules the specification states: two
\* integers, both in 1..size, naming an empty cell.
ValidMove(in) ==
    LET p == in.parsed
    IN  IF p.kind # "ints" THEN FALSE
        ELSE IF ~(p.x \in Rows /\ p.y \in Rows) THEN FALSE
        ELSE field[p.x][p.y] = Empty

\* C9 as stated: a line is forwarded to setCell only if it is two integers
\* in 1..size naming an empty cell, so the arguments of every call of
\* setCell are in 0..size-1.
C9_OnlyValidMovesForwarded ==
    [][\A in \in TurnInputs[size] :
          Place(in) =>
              /\ ValidMove(in)
              /\ args'[1] \in 0..(size - 1)
              /\ args'[2] \in 0..(size - 1)]_vars

\* C10 as stated: a line that is not a valid move is refused (the same
\* player is asked again, nothing has changed), and does not kill the process.
C10_InvalidInputReprompts ==
    [][\A in \in TurnInputs[size] :
          (pc = "prompt" /\ ~ValidMove(in)) =>
              /\ ~Place(in)
              /\ ~(Raises(in) /\ pc' = "crashed")]_vars

\* C11: the grid returned by getData shares nothing with the model: when an
\* observer overwrites a cell of a row of a grid it was handed, the model's
\* field, its flags and what getData returns next stay as they were.
C11_SnapshotSharesNothing ==
    [][\A r \in 1..size : \A c \in 1..size : \A v \in {MarkX, Mark0} :
          ObserverWrite(r, c, v) => getData' = getData]_vars

\* C12: whenever startPlay is invoked, in whatever state the model is, the
\* state afterwards has a size x size field of empty cells, Cross Player as
\* the active player and both flags cleared.
C12_StartPlayResetsEverything ==
    [][\A n \in Sizes :
          ClientStart(n) =>
              /\ field' = [line \in 1..n |-> [column \in 1..n |-> Empty]]
              /\ active_player' = player_X
              /\ ~flag_end'
              /\ ~flag_draw']_vars

\* C13: whatever is answered in the startup dialog, the board is built with
\* an integer size of at least 3: the standard choice and an empty size line
\* give 3, an integer line of 3 or more gives that integer, and an integer
\* line below 3 never starts the game: the program keeps asking.
C13_SizeAtLeastThree ==
    [][/\ (field = <<>> /\ field' # <<>>) =>
             /\ size' \in Int /\ size' >= 3
             /\ Len(field') = size'
             /\ (pc = "start") => (size' = 3)
       /\ \A line \in SizeLines :
             /\ SizeChosen(line) =>
                   IF line = <<>> THEN size' = 3
                   ELSE IsInt(line) /\ size' = IntVal(line) /\ size' >= 3
             /\ (pc = "size" /\ IsInt(line) /\ IntVal(line) < 3) =>
                   /\ ~SizeChosen(line)
                   /\ ENABLED SizeRetry(line)]_vars

\* A game on a board of the custom size 4 has begun.
C13_Witness == Started /\ pc = "prompt" /\ size = 4 /\ Len(field) = 4

\* C14: getData changes nothing of the model (field, flags, active player,
\* size, observer list), and a getData call that follows another with no
\* setCell or startPlay between the two returns what the earlier returned.
C14_GetDataPureAndRepeatable ==
    [][ClientGetData =>
          /\ UNCHANGED <<size, field, active_player, flag_end, flag_draw,
                         observers>>
          /\ (returned # <<>>) => (returned' = returned)]_vars

\* C15 as stated: no setCell call begins while an earlier setCell,
\* notifyObserver or updateCurrentSituation has begun and not returned.
C15_NoOverlap == [][(calls' = calls + 1) => (callbacks = 0)]_vars

\* C15, amended: the calls nest.  A setCell call begins inside the view's
\* callback of the change before it (startPlay or the previous setCell),
\* so the callbacks of startPlay and of every earlier setCell are still
\* open; what is complete by then is that change itself: its flags are
\* set from the board and its notification delivered the present data.
\* All callbacks return when the game is won or drawn.
C15_CallsNest ==
    [][/\ (calls' = calls + 1) =>
             /\ callbacks = calls + 1
             /\ flag_end = checkWinner(field, size)
             /\ ~flag_end => (flag_draw = isFullField(field))
             /\ log = Callbacks(observers, getData)
       /\ (pc' = "prompt") => (callbacks' = calls' + 1)
       /\ (pc' = "done") => (callbacks' = 0)]_vars

\* The third move is awaited inside three open callbacks.
C15_Witness == pc = "prompt" /\ calls = 2 /\ callbacks = 3

\* C16: every startPlay and every setCell calls updateCurrentSituation of
\* each registered observer exactly once, in the order of registration, and
\* after the change is complete: the data each observer pulls in its
\* callback are those of the state after the change, and after a setCell
\* that state has the mark written, the flags set from the board and the
\* turn passed on.
C16_NotifiedOnceInOrderAfterChange ==
    [][(field' # field) =>
          /\ Len(log') = Len(observers)
          /\ \A i \in 1..Len(observers) :
                /\ log'[i].observer = observers[i]
                /\ log'[i].data =
                      <<size', flag_end', flag_draw', active_player', field'>>
          /\ (calls' = calls + 1) =>
                /\ PyGet(PyGet(field', args'[1]), args'[2]) = MarkOf(active_player)
                /\ flag_end' = checkWinner(field', size')
                /\ ~flag_end' => (flag_draw' = isFullField(field'))
                /\ (active_player' # active_player) <=> (~flag_end' /\ ~flag_draw')]_vars

\* Observer b registered before observer a; the winning move was announced
\* to both, in that order, with the end flag set.
C16_Witness ==
    /\ observers = <<"b", "a">>
    /\ Len(log) = 2 /\ log[1].observer = "b" /\ log[2].observer = "a"
    /\ flag_end /\ log[1].data[2] /\ log[2].data[5] = field

C18_MarkCountsAndTurn ==
    Started =>
        LET lead == Cardinality(CellsWith(MarkX)) - Cardinality(CellsWith(Mark0))
        IN  /\ lead \in {0, 1}
            /\ (~flag_end /\ ~flag_draw) =>
                  /\ (active_player = player_X) <=> (lead = 0)
                  /\ (active_player = player_0) <=> (lead = 1)

\* Zero Player is asked for the fourth mark: two X and one 0 on the board.
C18_Witness ==
    /\ pc = "prompt" /\ active_player = player_0
    /\ Cardinality(CellsWith(MarkX)) = 2 /\ Cardinality(CellsWith(Mark0)) = 1

\* C19: no state of a game has a complete line of X together with a
\* complete line of 0, and a complete line exists only where the end flag is
\* set: play stops at the first complete line.
C19_OneWinnerOnly ==
    Started =>
        /\ ~(CompleteLine(MarkX) /\ CompleteLine(Mark0))
        /\ SomeCompleteLine => (flag_end /\ pc # "prompt")

\* A game that ended with a column of 0 while X holds two cells of a row:
\* X is not asked for the move that would complete it.
C19_Witness ==
    /\ Started /\ flag_end /\ pc = "done"
    /\ \E c \in Rows : \A r \in Rows : field[r][c] = Mark0
    /\ \E r \in Rows : Cardinality({c \in Rows : field[r][c] = MarkX}) = size - 1
====
